---- MODULE Spec2Model ----
(***************************************************************************)
(* Model of the Convert command of the bilibili cache converter            *)
(* (src/src/main.rs).  The program is single threaded: `pc` is the         *)
(* position of the one thread in main / handle_dir / process.  The source  *)
(* library is read-only input (apart from autoremove), so what a read of   *)
(* it returns is drawn when the read happens; the target directory is      *)
(* state.                                                                  *)
(***************************************************************************)
EXTENDS Integers, Sequences, FiniteSets, TLC

\* ---------------------------------------------------------------- bounds
NItems == 2          \* entries of the source root
MaxSegs == 2         \* .m4s files in one item directory

\* ------------------------------------------------------ program constants
SPECIAL_OFFSET == 9

Items == 1 .. NItems
NoFile == [exists |-> FALSE, data |-> <<>>]       \* no file at this path
File(d) == [exists |-> TRUE, data |-> d]          \* a file holding bytes d
NoInfo == [none |-> TRUE]

\* ------------------------------------------------------------ input sets
\* what an entry of the source root can be
EntryKinds == {"valid", "missing", "invalid", "file", "unreadable"}
\* lengths of cached segment files: below, at and above the header length
SegLens == {SPECIAL_OFFSET - 1, SPECIAL_OFFSET, SPECIAL_OFFSET + 2}
SegName(j) == "s" \o ToString(j) \o ".m4s"
SegNames == {SegName(j) : j \in 1 .. MaxSegs}
\* content of segment j of item i with length n: every byte differs
SegData(i, j, n) == [b \in 1 .. n |-> (i * 64 + j * 16 + b) % 256]
\* the directory listings one item can have
MediaLists(i) ==
    UNION {{[j \in 1 .. n |-> [name |-> SegName(j), data |-> SegData(i, j, len[j])]]
              : len \in [1 .. n -> SegLens]} : n \in 0 .. MaxSegs}

\* the children read_dir can list besides the segment files: the sidecar,
\* and a subdirectory whose name ends in the segment extension
Sidecar == [name |-> ".videoInfo", ext |-> "", kind |-> "file", data |-> <<>>]
SubDir == [name |-> "d.m4s", ext |-> "m4s", kind |-> "dir", data |-> <<>>]
Child(seg) == [name |-> seg.name, ext |-> "m4s", kind |-> "file", data |-> seg.data]
Listings(i) ==
    UNION {{<<Sidecar>> \o [j \in 1 .. Len(m) |-> Child(m[j])],
            <<SubDir, Sidecar>> \o [j \in 1 .. Len(m) |-> Child(m[j])]}
              : m \in MediaLists(i)}
\* what can be wrong with a sidecar that exists and does not parse
Defects == {"not_utf8", "missing_field", "wrong_type"}

GoodCover == <<"tmp", "cover.jpg">>
GoodGroupCover == <<"tmp", "gcover.jpg">>
BadPath == <<"tmp", "..">>
\* pubdate is an i64; the program only asks whether chrono can represent it
Pubdates == {"in_range", "out_of_range"}
\* the records a well-formed sidecar can hold
VideoInfos ==
    {[uname |-> "Alice", title |-> "EP1", group_title |-> g, pubdate |-> p,
      item_id |-> 42, cover_path |-> c[1], group_cover_path |-> c[2]]
       : g \in {"EP1", "Season1"}, p \in Pubdates,
         c \in {<<GoodCover, GoodGroupCover>>, <<BadPath, GoodGroupCover>>,
                <<GoodCover, BadPath>>}}

VARIABLES
    pc,            \* position of the thread
    autoremove,    \* Args.autoremove
    specified,     \* Commands::Convert { item }: 0 is None
    ffmpeg,        \* is the merge tool on PATH
    entries,       \* kind of each entry of the source root
    srcExists,     \* which source entries still exist
    cur,           \* the entry being handled
    video_info,    \* process: the loaded record
    media,         \* process: the located segment files
    input_media,   \* process: paths of the fragments written
    wrote,         \* outcome of each fs::write, by position in input_media
    target_dir,    \* process: the destination directory name
    merge,         \* outcome of the merger call of this item
    removed,       \* number of fragments whose deletion was attempted
    copies,        \* outcome of each asset copy of this item
    ret,           \* what process returned for this item
    files,         \* fragment files in the target root: name -> content
    dirs,          \* destination directories that exist
    dest,          \* files in destination directories: <<dir, name>>
    targetRoot,    \* does main's target root exist
    result,        \* per entry: what handle_dir reported
    exit,          \* how the run ended
    no_overwrite,  \* Args.no_overwrite
    meta_ret,      \* process: what get_metadata returned for this item
    listing,       \* process: the children read_dir listed for this item
    unlinked,      \* outcome of each fs::remove_file, by position in input_media
    owner,         \* which entry's pipeline wrote each fragment file (0: none)
    rewritten,     \* destination files written again while they existed
    merges,        \* per entry: number of merger invocations
    rmdirs         \* per entry: number of fs::remove_dir_all attempts

itemVars == <<video_info, media, input_media, wrote, target_dir, merge, removed,
              copies, ret, meta_ret, listing, unlinked>>
fsVars == <<files, dirs, dest, targetRoot, srcExists>>
cfgVars == <<autoremove, specified, ffmpeg, entries, no_overwrite>>
effectVars == <<owner, rewritten, merges, rmdirs>>
vars == <<pc, cur, result, exit, itemVars, fsVars, cfgVars, effectVars>>

Assets == {"cover", "group_cover", "metadata"}
FreshCopies == [a \in Assets |-> "none"]

\* the start of main, whatever the target root holds
InitCommon ==
    /\ pc = "read_source"
    /\ autoremove \in BOOLEAN
    /\ specified \in 0 .. NItems
    /\ ffmpeg \in {"present", "missing"}
    /\ entries \in [Items -> EntryKinds]
    /\ srcExists = [i \in Items |-> TRUE]
    /\ cur = 0
    /\ video_info = NoInfo
    /\ media = <<>>
    /\ input_media = <<>>
    /\ wrote = <<>>
    /\ target_dir = ""
    /\ merge = "none"
    /\ removed = 0
    /\ copies = FreshCopies
    /\ ret = "none"
    /\ files = [n \in SegNames |-> NoFile]
    /\ result = [i \in Items |-> "none"]
    /\ exit = "running"
    /\ meta_ret = "none"
    /\ listing = <<>>
    /\ unlinked = <<>>
    /\ owner = [n \in SegNames |-> 0]
    /\ rewritten = {}
    /\ merges = [i \in Items |-> 0]
    /\ rmdirs = [i \in Items |-> 0]

\* a first run: the target root does not exist yet
Init ==
    /\ InitCommon
    /\ no_overwrite \in BOOLEAN
    /\ dirs = {}
    /\ dest = {}
    /\ targetRoot = FALSE

\* ------------------------------------------------------------ pure helpers

\* Path::file_name: None when the path is empty or ends in ".."
file_name(path) ==
    IF path = <<>> \/ path[Len(path)] = ".." THEN "" ELSE path[Len(path)]

\* a loader whose record fields have defaults
get_metadata_defaults(kind, info) ==
    CASE kind \in {"valid", "missing_field"} ->
             [ok |-> TRUE, value |-> info, err |-> "none"]
      [] kind = "not_utf8" -> [ok |-> FALSE, value |-> NoInfo, err |-> "Utf8Error"]
      [] kind \in {"invalid", "wrong_type"} ->
             [ok |-> FALSE, value |-> NoInfo, err |-> "SerdeJsonError"]
      [] OTHER -> [ok |-> FALSE, value |-> NoInfo, err |-> "IOError"]

\* get_metadata: fs::read(..)?, String::from_utf8(..)?, serde_json::from_str(..)?
get_metadata(kind, info) ==
    CASE kind = "valid" -> [ok |-> TRUE, value |-> info, err |-> "none"]
      [] kind = "not_utf8" -> [ok |-> FALSE, value |-> NoInfo, err |-> "Utf8Error"]
      [] kind \in {"invalid", "missing_field", "wrong_type"} ->
             [ok |-> FALSE, value |-> NoInfo, err |-> "SerdeJsonError"]
      [] OTHER -> [ok |-> FALSE, value |-> NoInfo, err |-> "IOError"]

\* get_files_by_extension: the children whose extension() is the given one
get_files_by_extension(children, extension) ==
    SelectSeq(children, LAMBDA c : c.ext = extension)

\* Display for VideoInfo: DateTime::from_timestamp(..).expect(..)
DisplayPanics(info) == info.pubdate = "out_of_range"

\* a decoder that keeps the last byte of the header
ReadFromOffsetOffByOne(data) ==
    IF Len(data) < SPECIAL_OFFSET THEN <<>>
    ELSE SubSeq(data, SPECIAL_OFFSET, Len(data))

\* seek(SeekFrom::Start(SPECIAL_OFFSET)) then read_to_end: seeking past the
\* end of a file is allowed and the read then returns no bytes
ReadFromOffset(data) ==
    IF Len(data) <= SPECIAL_OFFSET THEN <<>>
    ELSE SubSeq(data, SPECIAL_OFFSET + 1, Len(data))

\* a planner that puts the title before the group title
TargetDirNameTitleFirst(info) ==
    IF info.group_title # info.title
    THEN info.uname \o " - " \o info.title \o " - " \o info.group_title
    ELSE info.uname \o " - " \o info.title

\* process: the destination directory name of a record
TargetDirName(info) ==
    IF info.group_title # info.title
    THEN info.uname \o " - " \o info.group_title \o " - " \o info.title
    ELSE info.uname \o " - " \o info.title

\* format!("{}.mp4", video_info.item_id)
FinalFileName(info) == ToString(info.item_id) \o ".mp4"

\* a pre-flight check that never fails
check_environment_always_ok(tool) == "Ok"

\* check_environment: is_err() of spawning "ffmpeg -version"
check_environment(tool) == IF tool = "missing" THEN "CommandNotFound" ELSE "Ok"

\* ------------------------------------------------------------------ main

\* main: source_path.read_dir().map_err(..)?
ReadSource ==
    /\ pc = "read_source"
    /\ \E ok \in BOOLEAN :
         IF ok THEN pc' = "check_env" /\ exit' = exit
         ELSE pc' = "exit" /\ exit' = "ReadDirectoryFailed"
    /\ UNCHANGED <<cur, result, itemVars, fsVars, cfgVars, effectVars>>

\* main: check_environment()?
CheckEnvironment ==
    /\ pc = "check_env"
    /\ IF check_environment(ffmpeg) = "Ok"
       THEN pc' = "create_target" /\ exit' = exit
       ELSE pc' = "exit" /\ exit' = check_environment(ffmpeg)
    /\ UNCHANGED <<cur, result, itemVars, fsVars, cfgVars, effectVars>>

\* main: fs::create_dir_all(&target_path)?
CreateTarget ==
    /\ pc = "create_target"
    /\ \E ok \in BOOLEAN :
         IF ok THEN pc' = "dispatch" /\ targetRoot' = TRUE /\ exit' = exit
         ELSE pc' = "exit" /\ targetRoot' = targetRoot /\ exit' = "IOError"
    /\ UNCHANGED <<cur, result, itemVars, files, dirs, dest, srcExists, cfgVars, effectVars>>

\* handle_dir is entered for entry i: process starts with fresh locals
EnterHandleDir(i) ==
    /\ cur' = i
    /\ pc' = "get_metadata"
    /\ video_info' = NoInfo
    /\ media' = <<>>
    /\ input_media' = <<>>
    /\ wrote' = <<>>
    /\ target_dir' = ""
    /\ merge' = "none"
    /\ removed' = 0
    /\ copies' = FreshCopies
    /\ ret' = "none"
    /\ meta_ret' = "none"
    /\ listing' = <<>>
    /\ unlinked' = <<>>

\* main: if let Some(item) = specified_item { handle_dir(..) }
HandleSpecified ==
    /\ pc = "dispatch"
    /\ specified # 0
    /\ cur = 0
    /\ EnterHandleDir(specified)
    /\ UNCHANGED <<result, exit, fsVars, cfgVars, effectVars>>

\* an iteration that yields its first entry over and over
NextEntryStuck(c) == IF c = 0 THEN 1 ELSE c

\* main: `for dir in subdirs` yields each entry of the source root once
NextEntry(c) == c + 1

\* main: for dir in subdirs, an entry that is a directory
LoopHandle ==
    /\ pc = "dispatch"
    /\ specified = 0
    /\ cur < NItems
    /\ entries[NextEntry(cur)] \in {"valid", "missing", "invalid"}
    /\ EnterHandleDir(NextEntry(cur))
    /\ UNCHANGED <<result, exit, fsVars, cfgVars, effectVars>>

\* main: for dir in subdirs, Err(e) is logged and a non-directory is skipped
LoopSkip ==
    /\ pc = "dispatch"
    /\ specified = 0
    /\ cur < NItems
    /\ entries[NextEntry(cur)] \in {"file", "unreadable"}
    /\ cur' = NextEntry(cur)
    /\ UNCHANGED <<pc, result, exit, itemVars, fsVars, cfgVars, effectVars>>

\* main: Ok(()) after the one item or after the last entry
Finish ==
    /\ pc = "dispatch"
    /\ IF specified = 0 THEN cur = NItems ELSE cur # 0
    /\ pc' = "exit"
    /\ exit' = "Ok"
    /\ UNCHANGED <<cur, result, itemVars, fsVars, cfgVars, effectVars>>

\* an unwrap()/expect() failed: the thread panics and the process ends
Panic ==
    /\ pc' = "exit"
    /\ exit' = "panic"

\* --------------------------------------------------------------- process

\* process: get_metadata(path).unwrap(); info!("Video: {}", video_info)
GetMetadata ==
    /\ pc = "get_metadata"
    /\ \E info \in VideoInfos, defect \in Defects :
         LET r == get_metadata(IF entries[cur] = "invalid" THEN defect
                               ELSE entries[cur], info) IN
           /\ meta_ret' = IF r.ok THEN "Ok" ELSE r.err
           /\ IF r.ok /\ ~DisplayPanics(r.value)
              THEN /\ pc' = "get_files"
                   /\ video_info' = r.value
                   /\ exit' = exit
              ELSE /\ Panic
                   /\ video_info' = IF r.ok THEN r.value ELSE video_info
    /\ UNCHANGED <<cur, result, media, input_media, wrote, target_dir, merge,
                   removed, copies, ret, listing, unlinked, fsVars, cfgVars,
                   effectVars>>

\* a pipeline that goes on to the destination directory without decoding
AfterLocateSkipDecode(m) == "create_dir"

\* process: `for m in media` runs once per located file, then the
\* destination directory is next
AfterLocate(m) == IF m = <<>> THEN "create_dir" ELSE "decode"

\* process: get_files_by_extension(path, "m4s"), whose read_dir is unwrapped
GetFiles ==
    /\ pc = "get_files"
    /\ \/ \E l \in Listings(cur) :
            /\ listing' = l
            /\ media' = get_files_by_extension(l, "m4s")
            /\ pc' = AfterLocate(media')
            /\ exit' = exit
       \/ Panic /\ UNCHANGED <<listing, media>>
    /\ UNCHANGED <<cur, result, video_info, input_media, wrote, target_dir, merge,
                   removed, copies, ret, meta_ret, unlinked, fsVars, cfgVars,
                   effectVars>>

\* what fs::write leaves at the fragment's path: the bytes, or on an error
\* (whose Result is dropped) the path as it was
AfterWrite(old, data, outcome) == IF outcome = "ok" THEN File(data) ELSE old

\* process: one turn of `for m in media`: open, seek, read, write, push
Decode ==
    /\ pc = "decode"
    /\ LET j == Len(input_media) + 1
           seg == media[j]
           data == ReadFromOffset(seg.data)
       IN \/ /\ seg.kind = "file"
             /\ \E outcome \in {"ok", "failed"} :
                  /\ files' = [files EXCEPT ![seg.name] = AfterWrite(@, data, outcome)]
                  /\ owner' = IF outcome = "ok"
                              THEN [owner EXCEPT ![seg.name] = cur] ELSE owner
                  /\ input_media' = Append(input_media, seg.name)
                  /\ wrote' = Append(wrote, outcome)
             /\ pc' = IF j = Len(media) THEN "create_dir" ELSE "decode"
             /\ exit' = exit
          \/ \* a failed open or read, and every read of a directory
             /\ Panic
             /\ UNCHANGED <<files, owner, input_media, wrote>>
    /\ UNCHANGED <<cur, result, video_info, media, target_dir, merge, removed,
                   copies, ret, meta_ret, listing, unlinked, dirs, dest, targetRoot,
                   srcExists, cfgVars, rewritten, merges, rmdirs>>

\* process: the target directory name and fs::create_dir_all(&target_dir)?
CreateDir ==
    /\ pc = "create_dir"
    /\ target_dir' = TargetDirName(video_info)
    /\ \E ok \in BOOLEAN :
         IF ok THEN /\ dirs' = dirs \cup {target_dir'}
                    /\ pc' = "ffmpeg_copy"
                    /\ ret' = ret
         ELSE /\ dirs' = dirs
              /\ pc' = "handle_result"
              /\ ret' = "IOError"
    /\ UNCHANGED <<cur, result, exit, video_info, media, input_media, wrote, merge,
                   removed, copies, meta_ret, listing, unlinked, files, dest,
                   targetRoot, srcExists, cfgVars, effectVars>>

\* ffmpeg_copy: cmd.output()? fails only when the process cannot be spawned
ffmpeg_copy(outcome) == IF outcome = "spawn_failed" THEN "IOError" ELSE "Ok"

\* how the command ffmpeg_copy builds can end: it carries no -y and
\* Command::output gives it no stdin, so ffmpeg does not write an output file
\* that exists
MergeOutcomes(outputExists) ==
    IF outputExists THEN {"spawn_failed", "exit_nonzero"}
    ELSE {"spawn_failed", "exit_zero", "exit_nonzero"}

\* process: ffmpeg_copy(&input_media, &final_file)?
FfmpegCopy ==
    /\ pc = "ffmpeg_copy"
    /\ \E outcome \in MergeOutcomes(<<target_dir, FinalFileName(video_info)>> \in dest) :
         /\ merge' = outcome
         /\ merges' = [merges EXCEPT ![cur] = @ + 1]
         /\ dest' = IF outcome = "exit_zero"
                    THEN dest \cup {<<target_dir, FinalFileName(video_info)>>}
                    ELSE dest
         /\ IF ffmpeg_copy(outcome) = "Ok"
            THEN /\ pc' = IF input_media = <<>> THEN "copy_cover" ELSE "remove_temp"
                 /\ ret' = ret
            ELSE /\ pc' = "handle_result"
                 /\ ret' = ffmpeg_copy(outcome)
    /\ UNCHANGED <<cur, result, exit, video_info, media, input_media, wrote,
                   target_dir, removed, copies, meta_ret, listing, unlinked, files,
                   dirs, targetRoot, srcExists, cfgVars, owner, rewritten, rmdirs>>

\* a removal loop that returns the error of fs::remove_file
after_remove_file_strict(ok) == IF ok THEN "Ok" ELSE "IOError"

\* process: `if fs::remove_file(..).is_err() { error!(..) }`: the error is
\* logged and the loop goes on
after_remove_file(ok) == "Ok"

\* process: one turn of `for media in input_media`: fs::remove_file, logged on error
RemoveTemp ==
    /\ pc = "remove_temp"
    /\ LET j == removed + 1
           name == input_media[j]
       IN /\ \E ok \in BOOLEAN :
               /\ ok => files[name].exists
               /\ files' = IF ok THEN [files EXCEPT ![name] = NoFile] ELSE files
               /\ owner' = IF ok THEN [owner EXCEPT ![name] = 0] ELSE owner
               /\ unlinked' = Append(unlinked, IF ok THEN "ok" ELSE "failed")
               /\ IF after_remove_file(ok) = "Ok"
                  THEN /\ pc' = IF j = Len(input_media) THEN "copy_cover"
                                ELSE "remove_temp"
                       /\ ret' = ret
                  ELSE /\ pc' = "handle_result"
                       /\ ret' = after_remove_file(ok)
          /\ removed' = j
    /\ UNCHANGED <<cur, result, exit, video_info, media, input_media, wrote,
                   target_dir, merge, copies, meta_ret, listing, dirs, dest,
                   targetRoot, srcExists, cfgVars, rewritten, merges, rmdirs>>

\* copy_to: the file name of the source, then fs::copy(..)?
copy_to(source, ioOk) ==
    IF file_name(source) = "" THEN "InvalidArgument"
    ELSE IF ioOk THEN "Ok" ELSE "IOError"

\* process: copy_to(Path::new(&video_info.<field>), &target_dir)?
CopyAsset(here, asset, source, next) ==
    /\ pc = here
    /\ \E ioOk \in BOOLEAN :
         LET r == copy_to(source, ioOk) IN
           IF r = "Ok"
           THEN /\ dest' = dest \cup {<<target_dir, file_name(source)>>}
                /\ rewritten' = rewritten
                                  \cup ({<<target_dir, file_name(source)>>} \cap dest)
                /\ copies' = [copies EXCEPT ![asset] = "ok"]
                /\ pc' = next
                /\ ret' = ret
           ELSE /\ dest' = dest
                /\ rewritten' = rewritten
                /\ copies' = [copies EXCEPT ![asset] = "failed"]
                /\ pc' = "handle_result"
                /\ ret' = r
    /\ UNCHANGED <<cur, result, exit, video_info, media, input_media, wrote,
                   target_dir, merge, removed, meta_ret, listing, unlinked, files,
                   dirs, targetRoot, srcExists, cfgVars, owner, merges, rmdirs>>

CopyCover == CopyAsset("copy_cover", "cover", video_info.cover_path, "copy_group_cover")

CopyGroupCover ==
    CopyAsset("copy_group_cover", "group_cover", video_info.group_cover_path,
              "copy_metadata")

\* what process returns after fs::copy(sidecar, videoInfo.json), whose Result
\* is dropped
AfterCopyMetadata(ioOk) == "Ok"

\* process: the copy of the sidecar, then Ok(())
CopyMetadata ==
    /\ pc = "copy_metadata"
    /\ \E ioOk \in BOOLEAN :
         /\ dest' = IF ioOk THEN dest \cup {<<target_dir, "videoInfo.json">>} ELSE dest
         /\ rewritten' = IF ioOk
                          THEN rewritten \cup ({<<target_dir, "videoInfo.json">>} \cap dest)
                          ELSE rewritten
         /\ copies' = [copies EXCEPT !["metadata"] = IF ioOk THEN "ok" ELSE "failed"]
         /\ ret' = AfterCopyMetadata(ioOk)
    /\ pc' = "handle_result"
    /\ UNCHANGED <<cur, result, exit, video_info, media, input_media, wrote,
                   target_dir, merge, removed, meta_ret, listing, unlinked, files,
                   dirs, targetRoot, srcExists, cfgVars, owner, merges, rmdirs>>

\* ------------------------------------------------------------ handle_dir

\* handle_dir: result.is_err() is logged
HandleErr ==
    /\ pc = "handle_result"
    /\ ret # "Ok"
    /\ result' = [result EXCEPT ![cur] = "failed"]
    /\ pc' = "dispatch"
    /\ UNCHANGED <<cur, exit, itemVars, fsVars, cfgVars, effectVars>>

\* a handle_dir that removes the source of every converted item
RemovesSourceAlways(flag) == TRUE

\* handle_dir: `if autoremove` guards fs::remove_dir_all(path)
RemovesSource(flag) == flag

\* handle_dir: Ok, and fs::remove_dir_all(path) when autoremove is set
HandleOk ==
    /\ pc = "handle_result"
    /\ ret = "Ok"
    /\ result' = [result EXCEPT ![cur] = "ok"]
    /\ IF RemovesSource(autoremove)
       THEN /\ \E ok \in BOOLEAN : srcExists' = [srcExists EXCEPT ![cur] = ~ok]
            /\ rmdirs' = [rmdirs EXCEPT ![cur] = @ + 1]
       ELSE UNCHANGED <<srcExists, rmdirs>>
    /\ pc' = "dispatch"
    /\ UNCHANGED <<cur, exit, itemVars, files, dirs, dest, targetRoot, cfgVars,
                   owner, rewritten, merges>>

Next ==
    \/ ReadSource
    \/ CheckEnvironment
    \/ CreateTarget
    \/ HandleSpecified
    \/ LoopHandle
    \/ LoopSkip
    \/ Finish
    \/ GetMetadata
    \/ GetFiles
    \/ Decode
    \/ CreateDir
    \/ FfmpegCopy
    \/ RemoveTemp
    \/ CopyCover
    \/ CopyGroupCover
    \/ CopyMetadata
    \/ HandleErr
    \/ HandleOk

Spec == Init /\ [][Next]_vars

\* the record of the item a first run converted
PriorInfo ==
    [uname |-> "Alice", title |-> "EP1", group_title |-> "Season1",
     pubdate |-> "in_range", item_id |-> 42, cover_path |-> GoodCover,
     group_cover_path |-> GoodGroupCover]

\* the files process leaves in the destination directory of a converted item
OutputOf(info) ==
    {<<TargetDirName(info), n>> :
        n \in {FinalFileName(info), file_name(info.cover_path),
               file_name(info.group_cover_path), "videoInfo.json"}}

\* a second run with --no-overwrite: the target root holds the output that a
\* first run produced for PriorInfo
InitRerun ==
    /\ InitCommon
    /\ no_overwrite = TRUE
    /\ targetRoot = TRUE
    /\ dirs = {TargetDirName(PriorInfo)}
    /\ dest = OutputOf(PriorInfo)

SpecRerun == InitRerun /\ [][Next]_vars

\* ---------------------------------------------------------------- claims

Ended == pc = "exit"
Handled(i) == result[i] # "none"
\* the fragments of the current item that were written and not yet up for deletion
Pending == {j \in 1 .. Len(input_media) : wrote[j] = "ok" /\ j > removed}

OwnFailure(b) == result[b] = "failed" \/ (exit = "panic" /\ cur = b)
\* C1: when a batch run that got past the pre-flight steps has ended, an item
\* A whose sidecar is missing or unparsable has not kept a valid item B from
\* being converted: B is converted unless B's own pipeline failed.
C1_ItemIsolation ==
    (Ended /\ specified = 0 /\ targetRoot) =>
        \A a, b \in Items :
            (entries[a] \in {"missing", "invalid"} /\ entries[b] = "valid"
               /\ ~OwnFailure(b)) => result[b] = "ok"

AllStepsSucceeded ==
    /\ video_info # NoInfo
    /\ Len(input_media) = Len(media)
    /\ \A j \in 1 .. Len(wrote) : wrote[j] = "ok"
    /\ target_dir \in dirs
    /\ merge = "exit_zero"
    /\ \A a \in Assets : copies[a] = "ok"
\* C2: a source item directory is gone only if autoremove was requested and
\* every earlier step of that item succeeded: metadata loaded, every segment
\* decoded and written, destination created, merger exited with zero, and the
\* three assets copied.
C2_RemovalOnlyAfterSuccess ==
    \A i \in Items : ~srcExists[i] => (i = cur => autoremove /\ AllStepsSucceeded)

\* C3: when the merger exits with a nonzero status or cannot be started,
\* process returns an error and the item is reported as failed.
C3_MergeFailureFailsItem ==
    merge \in {"exit_nonzero", "spawn_failed"} =>
        /\ ret # "none" => ret # "Ok"
        /\ result[cur] # "ok"

\* C4: when an item's pipeline has returned, the deletion of every fragment
\* it wrote has been attempted.
C4_FragmentsDeletedAtEnd == ret # "none" => Pending = {}

ByteExact(src, out) ==
    /\ Len(out) = Len(src) - SPECIAL_OFFSET
    /\ \A b \in 1 .. Len(out) : out[b] = src[b + SPECIAL_OFFSET]
\* C5: from its write until its deletion is attempted, a fragment written
\* from a segment of at least SPECIAL_OFFSET bytes sits under the segment's
\* file name and holds exactly the segment's bytes from offset SPECIAL_OFFSET
\* to the end.
C5_ByteExactDecoding ==
    \A j \in Pending :
        Len(media[j].data) >= SPECIAL_OFFSET =>
            /\ input_media[j] = media[j].name
            /\ files[input_media[j]].exists
            /\ ByteExact(media[j].data, files[input_media[j]].data)
C5_Witness ==
    \E j \in Pending :
        /\ Len(media[j].data) > SPECIAL_OFFSET
        /\ files[input_media[j]].data # <<>>
        /\ ByteExact(media[j].data, files[input_media[j]].data)

\* C6: a segment shorter than SPECIAL_OFFSET bytes is never turned into a
\* fragment: decoding stops at it, so it is never pushed to the merger's inputs.
C6_ShortSegmentFails ==
    \A j \in 1 .. Len(media) :
        Len(media[j].data) < SPECIAL_OFFSET => j > Len(input_media)

\* C7: when no segment file was located, the merger is never invoked and the
\* item does not succeed.
C7_NoSegmentsNoMerge ==
    (pc \notin {"get_metadata", "get_files"} /\ cur # 0 /\ media = <<>>) =>
        merge = "none" /\ ret # "Ok"

\* C8: the destination directory name is "<owner> - <title>" when the group
\* title equals the title and "<owner> - <group-title> - <title>" otherwise.
C8_TargetDirName ==
    target_dir # "" =>
        /\ video_info.group_title = video_info.title =>
             target_dir = video_info.uname \o " - " \o video_info.title
        /\ video_info.group_title # video_info.title =>
             target_dir = video_info.uname \o " - " \o video_info.group_title
                            \o " - " \o video_info.title
C8_Witness == {"Alice - EP1", "Alice - Season1 - EP1"} \subseteq dirs

\* C9: when the merge tool is missing the run never gets past the pre-flight
\* check: no item is entered, nothing is written, created or removed, and the
\* run ends with an error.
C9_MissingToolIsFatal ==
    ffmpeg = "missing" =>
        /\ cur = 0
        /\ \A i \in Items : ~Handled(i) /\ srcExists[i]
        /\ \A n \in SegNames : ~files[n].exists
        /\ dirs = {} /\ dest = {} /\ ~targetRoot
        /\ Ended => exit \in {"ReadDirectoryFailed", "CommandNotFound"}
C9_Witness == ffmpeg = "missing" /\ Ended /\ exit = "CommandNotFound"

\* C10: when the copy of the cover, of the group cover or of the sidecar
\* fails, process returns an error and the item is reported as failed.
C10_AssetCopyFailureFailsItem ==
    (\E a \in Assets : copies[a] = "failed") =>
        ret \notin {"none", "Ok"} /\ result[cur] # "ok"

\* the locals of process are those of entry cur (main has not moved on to an
\* entry it skips)
LocalsOfCur ==
    cur # 0 /\ (specified # 0 \/ entries[cur] \in {"valid", "missing", "invalid"})
FragmentCleanupFailed == \E j \in 1 .. Len(unlinked) : unlinked[j] = "failed"
SourceCleanupFailed == LocalsOfCur /\ rmdirs[cur] = 1 /\ srcExists[cur]
\* C11: cleanup failures are only logged: once the merger has returned, the
\* deletion of every fragment is attempted whatever the earlier deletions did;
\* a failed deletion does not keep an item whose assets were copied from being
\* reported as converted; a failed removal of the source directory leaves the
\* item converted and the run going.
C11_CleanupFailuresOnlyLogged ==
    /\ (merge \in {"exit_zero", "exit_nonzero"} /\ pc # "remove_temp") =>
           Len(unlinked) = Len(input_media)
    /\ (FragmentCleanupFailed /\ \A a \in Assets : copies[a] = "ok") =>
           /\ ret = "Ok"
           /\ (LocalsOfCur /\ pc \in {"dispatch", "exit"}) => result[cur] = "ok"
    /\ SourceCleanupFailed =>
           /\ result[cur] = "ok"
           /\ pc \in {"dispatch", "exit"}
           /\ exit \in {"running", "Ok"}
C11_Witness ==
    /\ Len(unlinked) = 2 /\ unlinked[1] = "failed"
    /\ SourceCleanupFailed
    /\ result[cur] = "ok"
    /\ pc = "dispatch" /\ specified = 0 /\ cur < NItems

\* C12: in a second run with --no-overwrite over the unmodified item of the
\* first run, the files the first run left in the destination directory stay
\* in place and none of them is written again.
C12_NoOverwriteIdempotent ==
    (no_overwrite /\ video_info = PriorInfo) =>
        /\ OutputOf(PriorInfo) \subseteq dest
        /\ rewritten \cap OutputOf(PriorInfo) = {}

\* C13: loading the metadata of an item directory returns an error and no
\* record when the sidecar does not exist (IOError) or when it is not UTF-8,
\* lacks a field or has a field of the wrong type (Utf8Error, SerdeJsonError);
\* the two kinds of error differ, a record is returned only for a valid
\* sidecar, and the load changes nothing on disk.
C13_MetadataLoaderErrors ==
    [][pc = "get_metadata" =>
         /\ UNCHANGED fsVars
         /\ entries[cur] = "missing" =>
                meta_ret' = "IOError" /\ video_info' = NoInfo
         /\ entries[cur] = "invalid" =>
                /\ meta_ret' \in {"Utf8Error", "SerdeJsonError"}
                /\ video_info' = NoInfo
         /\ (meta_ret' = "Ok") <=> (entries[cur] = "valid")
         /\ (video_info' # NoInfo) => (meta_ret' = "Ok")]_vars

C13_Witness ==
    /\ LocalsOfCur
    /\ entries[cur] = "invalid"
    /\ meta_ret = "Utf8Error"
    /\ video_info = NoInfo
    /\ result[1] = "ok"

\* the write of some fragment of the current item failed
WriteFailed == \E j \in 1 .. Len(wrote) : wrote[j] = "failed"

\* the decode loop of the current item stopped at a segment it could not read
ReadFailed == Len(input_media) < Len(media) /\ pc # "decode"

\* C14: when reading a segment or writing its fragment fails, the merger is
\* not invoked for the item, process does not return Ok, the item is reported
\* as failed and the run is not aborted.
C14_DecodeFailureFailsItem ==
    /\ WriteFailed =>
           /\ merge = "none"
           /\ ret # "Ok"
           /\ (LocalsOfCur /\ pc \in {"dispatch", "exit"}) => result[cur] = "failed"
    /\ ReadFailed =>
           /\ exit # "panic"
           /\ merge = "none"
           /\ result[cur] = "failed"

\* C15: no step of an item's pipeline overwrites or deletes a fragment file
\* that the pipeline of another item wrote, whether or not the two items hold
\* segment files of the same name.
C15_FragmentExclusivity ==
    [][\A n \in SegNames :
          (files[n].exists /\ owner[n] # cur) => files'[n] = files[n]]_vars

\* C16: the segments located for an item are exactly the immediate children
\* of its directory that are files with the segment extension: no directory
\* and no file of another extension is among them.
C16_LocatorReturnsFilesOnly ==
    media = SelectSeq(listing, LAMBDA c : c.kind = "file" /\ c.ext = "m4s")

\* C17: a failure of an item, at any step of its pipeline, leaves the exit
\* status of the run successful: a run that has started on its items (the
\* source root was read and the merge tool found) ends with Ok.
C17_ItemFailureKeepsExitOk ==
    (Ended /\ cur # 0) => exit = "Ok"

\* the place of a step in the pipeline of one item
StepRank(p) ==
    CASE p = "get_metadata" -> 1
      [] p = "get_files" -> 2
      [] p = "decode" -> 3
      [] p = "create_dir" -> 4
      [] p = "ffmpeg_copy" -> 5
      [] p = "remove_temp" -> 6
      [] p = "copy_cover" -> 7
      [] p = "copy_group_cover" -> 8
      [] p = "copy_metadata" -> 9
      [] p = "handle_result" -> 10
      [] p \in {"dispatch", "exit"} -> 11
      [] OTHER -> 0

MergerReturned == merge \in {"exit_zero", "exit_nonzero"}

\* what has happened before each step of the current item
StepsInOrder ==
    /\ merge # "none" =>
           /\ Len(input_media) = Len(media)
           /\ target_dir \in dirs
    /\ Len(unlinked) > 0 => MergerReturned
    /\ (\E a \in Assets : copies[a] # "none") =>
           /\ MergerReturned
           /\ Len(unlinked) = Len(input_media)
    /\ copies["group_cover"] # "none" => copies["cover"] = "ok"
    /\ copies["metadata"] # "none" => copies["group_cover"] = "ok"
    /\ (LocalsOfCur /\ rmdirs[cur] > 0) => copies["metadata"] # "none"

\* C18: the steps of an item run in one order and none is entered again: the
\* merger runs only after every located segment went through the decode loop
\* and the destination directory was created, fragments are deleted only
\* after the merger returned, assets are copied only after the deletion of
\* every fragment was attempted, and the source directory is removed only
\* after the assets were copied.
C18_LinearStepOrder ==
    [][/\ StepsInOrder'
       /\ cur' = cur => StepRank(pc') >= StepRank(pc)]_vars

C18_Witness ==
    /\ LocalsOfCur
    /\ Len(media) = MaxSegs
    /\ merge = "exit_zero"
    /\ Len(unlinked) = MaxSegs
    /\ \A a \in Assets : copies[a] = "ok"
    /\ rmdirs[cur] = 1
    /\ pc = "dispatch"

\* C19: a run without autoremove removes no source item directory and
\* attempts no removal of one, whether the items are converted or fail.
C19_NoAutoremoveKeepsSource ==
    ~autoremove =>
        \A i \in Items : srcExists[i] /\ rmdirs[i] = 0

C19_Witness ==
    /\ ~autoremove
    /\ result[1] = "ok"
    /\ result[2] = "failed"
    /\ \A i \in Items : srcExists[i]
    /\ pc = "exit"

\* C20: in one run the merger is invoked at most once for each item
\* directory and exactly once for each item reported as converted, and the
\* removal of a source directory is attempted at most once for each item.
C20_AtMostOnceEffects ==
    \A i \in Items :
        /\ merges[i] <= 1
        /\ rmdirs[i] <= 1
        /\ result[i] = "ok" => merges[i] = 1

C20_Witness ==
    /\ \A i \in Items : result[i] = "ok" /\ merges[i] = 1 /\ rmdirs[i] = 1
    /\ pc = "exit"

====
